---------------------------- MODULE Spec2Model ----------------------------
(***************************************************************************)
(* ArborWatcher: the change-digest engine of monitor_arbor_portal.py.      *)
(*                                                                         *)
(* A run of main() loads the state file, gathers the portal's items,       *)
(* fingerprints the first 10 items of every section, compares the          *)
(* fingerprints with the persisted ones, and on a difference builds a      *)
(* digest, decides whether to send it (should_send_digest), posts it to    *)
(* Telegram and rewrites the state file.                                   *)
(*                                                                         *)
(* Text is modelled as a sequence of characters (one-character strings),   *)
(* so that joining, stripping and splitting are computed as Python        *)
(* computes them.  SHA-256 is modelled as a collision-free function.       *)
(* The state file is modelled by the dict its JSON text parses to, or by   *)
(* Absent (no file) or Corrupt (text that json.load rejects).              *)
(* Time is in milliseconds.                                                *)
(***************************************************************************)
EXTENDS Integers, Sequences, FiniteSets, TLC

(***************************************************************************)
(* Characters and text                                                     *)
(***************************************************************************)
NL == "\n"
SP == " "
Bullet == "U+2022"
EmDash == "U+2014"

\* str.isspace for the characters of the model
IsSpace(c) == c \in {SP, NL}

\* "sep".join(parts)
RECURSIVE Join(_, _)
Join(parts, sep) ==
    IF parts = <<>> THEN <<>>
    ELSE IF Len(parts) = 1 THEN parts[1]
    ELSE parts[1] \o sep \o Join(Tail(parts), sep)

\* str.rstrip()
RECURSIVE rstrip(_)
rstrip(s) ==
    IF s = <<>> THEN <<>>
    ELSE IF IsSpace(s[Len(s)]) THEN rstrip(SubSeq(s, 1, Len(s) - 1))
    ELSE s

\* str.lstrip()
RECURSIVE lstrip(_)
lstrip(s) ==
    IF s = <<>> THEN <<>>
    ELSE IF IsSpace(s[1]) THEN lstrip(Tail(s))
    ELSE s

\* str.strip()
strip(s) == lstrip(rstrip(s))

\* str.splitlines(): lines without their terminators; a trailing terminator
\* opens no further line
RECURSIVE SplitFrom(_, _)
SplitFrom(s, cur) ==
    IF s = <<>> THEN (IF cur = <<>> THEN <<>> ELSE <<cur>>)
    ELSE IF s[1] = NL THEN <<cur>> \o SplitFrom(Tail(s), <<>>)
    ELSE SplitFrom(Tail(s), Append(cur, s[1]))

splitlines(s) == SplitFrom(s, <<>>)

\* items[:n]
Take(s, n) == SubSeq(s, 1, IF Len(s) < n THEN Len(s) ELSE n)

\* str(n) for a natural number
Digits == <<"0", "1", "2", "3", "4", "5", "6", "7", "8", "9">>

RECURSIVE str(_)
str(n) == IF n < 10 THEN <<Digits[n + 1]>> ELSE str(n \div 10) \o <<Digits[(n % 10) + 1]>>

(***************************************************************************)
(* Python dicts: functions with a finite domain                            *)
(***************************************************************************)
EmptyDict == <<>>

HasKey(d, k) == k \in DOMAIN d

\* d[k] = v
DictSet(d, k, v) == [x \in (DOMAIN d) \cup {k} |-> IF x = k THEN v ELSE d[x]]

(***************************************************************************)
(* sha, digest_sha                                                         *)
(***************************************************************************)
\* hashlib.sha256(text).hexdigest(): equal texts give equal digests, and
\* different texts different ones
sha(text) == <<"sha256">> \o text

\* [line.rstrip() for line in lines if line.strip()]
RECURSIVE NormLines(_)
NormLines(lines) ==
    IF lines = <<>> THEN <<>>
    ELSE (IF strip(lines[1]) # <<>> THEN <<rstrip(lines[1])>> ELSE <<>>)
         \o NormLines(Tail(lines))

digest_sha(text) ==
    sha(Join(NormLines(splitlines(strip(text))), <<NL>>) \o <<NL>>)

(***************************************************************************)
(* Python's ordering of str: by code point, a proper prefix first          *)
(***************************************************************************)
\* the characters of the model, in ascending code point order
CodePoints ==
    <<NL, SP, "(", ")", "-", ":", "A", "C", "D", "M", "P",
      "a", "b", "c", "d", "e", "g", "m", "n", "o", "p", "r", "s", "t", "u",
      "w", "x", "y", "|", EmDash, Bullet>>

ord(c) == CHOOSE i \in 1..Len(CodePoints) : CodePoints[i] = c

\* a < b on str
RECURSIVE StrLess(_, _)
StrLess(a, b) ==
    IF b = <<>> THEN FALSE
    ELSE IF a = <<>> THEN TRUE
    ELSE IF a[1] = b[1] THEN StrLess(Tail(a), Tail(b))
    ELSE ord(a[1]) < ord(b[1])

\* insertion of k into an ascending list
RECURSIVE Insert(_, _)
Insert(k, s) ==
    IF s = <<>> THEN <<k>>
    ELSE IF StrLess(k, s[1]) THEN <<k>> \o s
    ELSE <<s[1]>> \o Insert(k, Tail(s))

\* (mutant) the keys are left in the order of insertion
sorted_as_inserted(keys) == keys

\* sorted(keys)
RECURSIVE sorted(_)
sorted(keys) ==
    IF keys = <<>> THEN <<>> ELSE Insert(keys[1], sorted(Tail(keys)))

(***************************************************************************)
(* Item, and the grouping of all_items by section                          *)
(***************************************************************************)
Item(section, title, meta, when) ==
    [section |-> section, title |-> title, meta |-> meta, when |-> when]

\* the keys of by_section, in insertion order (dict.setdefault keeps the
\* position of the first item of a section)
RECURSIVE SectionKeys(_, _)
SectionKeys(items, seen) ==
    IF items = <<>> THEN seen
    ELSE SectionKeys(Tail(items),
                     IF \E i \in 1..Len(seen) : seen[i] = items[1].section
                     THEN seen ELSE Append(seen, items[1].section))

\* by_section[sec]
RECURSIVE SectionItems(_, _)
SectionItems(items, sec) ==
    IF items = <<>> THEN <<>>
    ELSE (IF items[1].section = sec THEN <<items[1]>> ELSE <<>>)
         \o SectionItems(Tail(items), sec)

(***************************************************************************)
(* The section fingerprint of main                                         *)
(***************************************************************************)
FingerprintWindow == 10

\* f"{i.title}|{i.meta}|{i.when}"
BasisLine(i) == i.title \o <<"|">> \o i.meta \o <<"|">> \o i.when

RECURSIVE BasisLines(_)
BasisLines(items) ==
    IF items = <<>> THEN <<>>
    ELSE <<BasisLine(items[1])>> \o BasisLines(Tail(items))

\* (mutant) the fingerprint covers only the items the digest shows
FingerprintOfShown(items) ==
    sha(Join(BasisLines(Take(items, 8)), <<NL>>))

\* sha("\n".join(... for i in items[:10]))
Fingerprint(items) ==
    sha(Join(BasisLines(Take(items, FingerprintWindow)), <<NL>>))

\* (mutant) a section without a baseline entry counts as unchanged
DiffersOnlyIfPresent(last, sec, h) == HasKey(last, sec) /\ last[sec] # h

\* last.get(sec) != h
Differs(last, sec, h) == ~(HasKey(last, sec) /\ last[sec] = h)

\* the loop of main over by_section.items(): current and changed_sections
RECURSIVE DiffLoop(_, _, _, _)
DiffLoop(keys, items, last, acc) ==
    IF keys = <<>> THEN acc
    ELSE LET sec == keys[1]
             h   == Fingerprint(SectionItems(items, sec))
             chg == Differs(last, sec, h)
         IN DiffLoop(Tail(keys), items, last,
                     [current |-> DictSet(acc.current, sec, h),
                      changed |-> IF chg THEN Append(acc.changed, sec)
                                         ELSE acc.changed])

\* (mutant) a section the baseline has and the run has not counts as changed
DiffWithVanished(items, last) ==
    LET d    == DiffLoop(SectionKeys(items, <<>>), items, last,
                         [current |-> EmptyDict, changed |-> <<>>])
        gone == DOMAIN last \ { items[i].section : i \in 1..Len(items) }
    IN [current |-> d.current,
        changed |-> IF gone = {} THEN d.changed
                    ELSE Append(d.changed, CHOOSE sec \in gone : TRUE)]

Diff(items, last) ==
    DiffLoop(SectionKeys(items, <<>>), items, last,
             [current |-> EmptyDict, changed |-> <<>>])

(***************************************************************************)
(* build_digest                                                            *)
(***************************************************************************)
DigestCap == 8

NoNewItems == <<"N","o",SP,"n","e","w",SP,"i","t","e","m","s",".">>
Heading    == <<"A","r","b","o","r",SP,"u","p","d","a","t","e","s",":">>

\* f"  - {i.title}{meta}{suffix}"
ItemLine(i) ==
    LET suffix == IF i.when # <<>> THEN <<SP, EmDash, SP>> \o i.when ELSE <<>>
        meta   == IF i.meta # <<>> THEN <<SP, "(">> \o i.meta \o <<")">> ELSE <<>>
    IN <<SP, SP, "-", SP>> \o i.title \o meta \o suffix

RECURSIVE ItemLines(_)
ItemLines(items) ==
    IF items = <<>> THEN <<>>
    ELSE <<ItemLine(items[1])>> \o ItemLines(Tail(items))

RECURSIVE SectionBlocks(_, _)
SectionBlocks(keys, items) ==
    IF keys = <<>> THEN <<>>
    ELSE <<<<Bullet, SP>> \o keys[1]>>
         \o ItemLines(Take(SectionItems(items, keys[1]), DigestCap))
         \o SectionBlocks(Tail(keys), items)

\* (mutant) only the section of the first item is rendered
build_digest_first_section(all_items) ==
    IF all_items = <<>> THEN NoNewItems
    ELSE Join(<<Heading>> \o SectionBlocks(<<all_items[1].section>>, all_items), <<NL>>)

build_digest(all_items) ==
    IF all_items = <<>> THEN NoNewItems
    ELSE Join(<<Heading>> \o SectionBlocks(sorted(SectionKeys(all_items, <<>>)), all_items),
              <<NL>>)

(***************************************************************************)
(* Time and the cooldown of should_send_digest                             *)
(***************************************************************************)
MsPerSecond == 1000
min_interval_minutes == 30

\* timedelta(minutes=m), in milliseconds
timedelta_minutes(m) == m * 60 * MsPerSecond

\* datetime.isoformat(timespec="seconds"): the text names a whole second
isoformat_seconds(t) == t \div MsPerSecond

\* datetime.fromisoformat of such a text
fromisoformat(txt) == txt * MsPerSecond

\* (mutant) the duplicate check is missing: every digest is sent
should_send_always(state, digest, now) ==
    [send |-> TRUE,
     state |-> DictSet(DictSet(state, "last_digest_sha", digest_sha(digest)),
                       "last_digest_at", isoformat_seconds(now))]

\* (mutant) the time of the send is not stored with the fingerprint
should_send_unstamped(state, digest, now) ==
    LET this_sha == digest_sha(digest)
        dup == /\ HasKey(state, "last_digest_sha")
               /\ state["last_digest_sha"] = this_sha
               /\ HasKey(state, "last_digest_at")
               /\ now - fromisoformat(state["last_digest_at"])
                      < timedelta_minutes(min_interval_minutes)
    IN IF dup
       THEN [send |-> FALSE, state |-> state]
       ELSE [send |-> TRUE, state |-> DictSet(state, "last_digest_sha", this_sha)]

\* (mutant) a suppressed digest restarts the cooldown
should_send_restamps(state, digest, now) ==
    LET this_sha == digest_sha(digest)
        dup == /\ HasKey(state, "last_digest_sha")
               /\ state["last_digest_sha"] = this_sha
               /\ HasKey(state, "last_digest_at")
               /\ now - fromisoformat(state["last_digest_at"])
                      < timedelta_minutes(min_interval_minutes)
    IN IF dup
       THEN [send |-> FALSE,
             state |-> DictSet(state, "last_digest_at", isoformat_seconds(now))]
       ELSE [send |-> TRUE,
             state |-> DictSet(DictSet(state, "last_digest_sha", this_sha),
                               "last_digest_at", isoformat_seconds(now))]

\* should_send_digest(state, digest) called at time now: whether to send,
\* and the state dict as the call leaves it
should_send_digest(state, digest, now) ==
    LET this_sha == digest_sha(digest)
        dup == /\ HasKey(state, "last_digest_sha")
               /\ state["last_digest_sha"] = this_sha
               /\ HasKey(state, "last_digest_at")
               /\ now - fromisoformat(state["last_digest_at"])
                      < timedelta_minutes(min_interval_minutes)
    IN IF dup
       THEN [send |-> FALSE, state |-> state]
       ELSE [send |-> TRUE,
             state |-> DictSet(DictSet(state, "last_digest_sha", this_sha),
                               "last_digest_at", isoformat_seconds(now))]

(***************************************************************************)
(* The inputs: what the portal shows on a run, and when runs happen        *)
(***************************************************************************)
Messages == <<"M","e","s","s","a","g","e","s">>
Payments == <<"P","a","y","m","e","n","t","s">>

ItemA == Item(Messages, <<"a">>, <<>>, <<>>)
ItemB == Item(Messages, <<"b">>, <<"m">>, <<"w">>)
ItemP == Item(Payments, <<"p">>, <<>>, <<"w">>)

\* LongLen records ItemA, with ItemB in place k (none when k = 0)
LongLen == FingerprintWindow + 1
LongList(k) == [i \in 1..LongLen |-> IF i = k THEN ItemB ELSE ItemA]

\* the sections main fetches, in the order of the buckets of
\* discover_guardian_sections
FetchOrder == <<Payments, Messages>>

\* what fetch_section returns for each section on a run
Portal(payments, messages) ==
    [sec \in {Payments, Messages} |-> IF sec = Payments THEN payments ELSE messages]

Portals ==
    { Portal(<<>>, <<>>),
      Portal(<<>>, <<ItemA>>), Portal(<<>>, <<ItemB>>),
      Portal(<<ItemP>>, <<>>), Portal(<<ItemP>>, <<ItemB>>),
      Portal(<<>>, LongList(0)), Portal(<<>>, LongList(DigestCap + 1)),
      Portal(<<>>, LongList(FingerprintWindow + 1)) }

\* the loop of main over the sections: all_items.extend(items)
RECURSIVE Extend(_, _)
Extend(secs, p) ==
    IF secs = <<>> THEN <<>> ELSE p[secs[1]] \o Extend(Tail(secs), p)

GatherAll(p) == Extend(FetchOrder, p)

\* all_items as the run gathers it
Snapshots == { GatherAll(p) : p \in Portals }

\* the instants at which something happens: each multiple of the cooldown,
\* the last millisecond of the second it starts, and the millisecond before
\* the next multiple
MaxPeriods == 1
Cooldown == timedelta_minutes(min_interval_minutes)
Times ==
    { k * Cooldown + o : k \in 0..MaxPeriods,
                         o \in {0, MsPerSecond - 1, Cooldown - 1} }

(***************************************************************************)
(* State                                                                   *)
(***************************************************************************)
VARIABLES
    file,             \* STATE_FILE: [kind: "absent" | "corrupt" | "json", data]
    clock,            \* datetime.now(), in milliseconds
    pc,               \* where main is
    state,            \* main's state dict
    portal,           \* what fetch_section returned for each section
    all_items,        \* main's all_items
    current,          \* main's current: section -> fingerprint
    changed_sections, \* main's changed_sections
    digest,           \* main's digest, <<>> while not built
    notif,            \* what happened to the notification of this run
    prev_run,         \* history: the run before this one, kept from the
                      \* load on while this run has gathered the same items
    effects,          \* history: what this run did to the outside, in order:
                      \* "load", "post", "open", "dump"
    file_at_load,     \* history: the state file as this run found it
    last_completed    \* history: all_items of the latest run that returned

\* assignments_watcher.py
VARIABLES
    w_file,           \* its STATE_FILE: [kind: "absent" | "corrupt" | "json", data]
    w_pc,             \* where its main is
    w_state,          \* main's state dict
    w_data,           \* main's data: block -> items
    w_digest,         \* main's digest, <<>> while not built
    w_notif,          \* what happened to the notification of this run
    w_effects,        \* history: what this run did to the outside, in order
    w_loaded          \* history: the state dict as load_state returned it

\* the fingerprint of two item lists side by side
VARIABLES
    probe_a, probe_b, \* two lists of items of one section
    probe_fa, probe_fb \* their fingerprints, <<>> while not computed

\* polite_request_with_backoff
VARIABLES
    b_pc,             \* where the call is
    b_max_attempts,   \* its argument max_attempts
    b_attempt,        \* its local attempt
    b_delay,          \* the delay of the latest sleep, in tenths of a second
    b_outs,           \* history: how each invocation of fn ended, in order
    b_result          \* how the call ended: what it returned or raised

\* fetch_section
VARIABLES
    f_pc,             \* where the call is
    f_section,        \* its argument section
    f_paths,          \* what each path of its argument paths does when visited
    f_next,           \* the position in paths of the path to try next
    f_visited,        \* history: the positions of the paths visited, in order
    f_result          \* what the call returned

\* export_all
VARIABLES
    x_pc,             \* where the call is
    x_zip_after,      \* its argument zip_after
    x_results,        \* results: section -> number of items
    x_downloads,      \* the number of files in outdir/docs, -1 without the directory
    x_files,          \* the files in outdir
    x_zips            \* the ZIP files in outdir

backoff_vars == <<b_pc, b_max_attempts, b_attempt, b_delay, b_outs, b_result>>

fetch_vars == <<f_pc, f_section, f_paths, f_next, f_visited, f_result>>

export_vars == <<x_pc, x_zip_after, x_results, x_downloads, x_files, x_zips>>

helper_vars == <<backoff_vars, fetch_vars, export_vars>>

watcher_vars == <<w_file, w_pc, w_state, w_data, w_digest, w_notif, w_effects,
                  w_loaded>>

probe_vars == <<probe_a, probe_b, probe_fa, probe_fb>>

monitor_vars == <<file, pc, state, portal, all_items, current, changed_sections,
                  digest, notif, prev_run, effects, file_at_load, last_completed>>

vars == <<clock, monitor_vars, watcher_vars, probe_vars, helper_vars>>

hist == <<effects, file_at_load, last_completed>>

\* what a step of monitor_arbor_portal.py leaves alone
elsewhere == <<watcher_vars, probe_vars, helper_vars>>

Absent  == [kind |-> "absent", data |-> EmptyDict]
Corrupt == [kind |-> "corrupt", data |-> EmptyDict]
Json(d) == [kind |-> "json", data |-> d]

Rest  == {"idle", "done", "aborted", "crashed"}
InRun == {"scrape", "digest", "post", "persist", "open", "dump"}

NoPrev == [items |-> <<>>, completed |-> FALSE, notif |-> "none"]

WatcherInit ==
    /\ w_file = Absent
    /\ w_pc = "idle"
    /\ w_state = EmptyDict
    /\ w_data = EmptyDict
    /\ w_digest = <<>>
    /\ w_notif = "none"
    /\ w_effects = <<>>
    /\ w_loaded = EmptyDict

ProbeInit ==
    /\ probe_a = <<>>
    /\ probe_b = <<>>
    /\ probe_fa = <<>>
    /\ probe_fb = <<>>

BackoffInit ==
    /\ b_pc = "idle"
    /\ b_max_attempts = 0
    /\ b_attempt = 0
    /\ b_delay = 0
    /\ b_outs = <<>>
    /\ b_result = <<>>

FetchInit ==
    /\ f_pc = "idle"
    /\ f_section = <<>>
    /\ f_paths = <<>>
    /\ f_next = 1
    /\ f_visited = <<>>
    /\ f_result = <<>>

ExportInit ==
    /\ x_pc = "idle"
    /\ x_zip_after = FALSE
    /\ x_results = EmptyDict
    /\ x_downloads = -1
    /\ x_files = {}
    /\ x_zips = {}

Init ==
    /\ WatcherInit
    /\ ProbeInit
    /\ BackoffInit
    /\ FetchInit
    /\ ExportInit
    /\ portal = Portal(<<>>, <<>>)
    /\ file = Absent
    /\ clock = 0
    /\ pc = "idle"
    /\ state = EmptyDict
    /\ all_items = <<>>
    /\ current = EmptyDict
    /\ changed_sections = <<>>
    /\ digest = <<>>
    /\ notif = "none"
    /\ prev_run = NoPrev
    /\ effects = <<>>
    /\ file_at_load = Absent
    /\ last_completed = <<>>

\* (mutant) the baseline is read under a key the file never has
LastOfWrongKey(st) == IF HasKey(st, "latest") THEN st["latest"] ELSE EmptyDict

\* state.get("last", {})
LastOf(st) == IF HasKey(st, "last") THEN st["last"] ELSE EmptyDict

\* (mutant) main goes on to the digest when nothing changed
AfterDiffAlwaysDigest(changed) == "digest"

\* (mutant) main saves the state before it turns to the Notifier
AfterDiffSaveFirst(changed) == IF changed = <<>> THEN "done" ELSE "persist"

\* if not changed_sections: return 0
AfterDiff(changed) == IF changed = <<>> THEN "done" ELSE "digest"

(***************************************************************************)
(* main, step by step                                                      *)
(***************************************************************************)
\* a run starts: state = load_state(STATE_FILE); json.load raises on text
\* that is no JSON, and nothing in main catches it
LoadState ==
    /\ pc \in Rest
    /\ prev_run' = [items |-> all_items, completed |-> (pc = "done"), notif |-> notif]
    /\ portal' = Portal(<<>>, <<>>)
    /\ all_items' = <<>>
    /\ current' = EmptyDict
    /\ changed_sections' = <<>>
    /\ digest' = <<>>
    /\ notif' = "none"
    /\ IF file.kind = "corrupt"
       THEN pc' = "aborted" /\ state' = EmptyDict
       ELSE pc' = "scrape" /\ state' = file.data
    /\ effects' = <<"load">>
    /\ file_at_load' = file
    /\ UNCHANGED <<file, clock, last_completed>>
    /\ UNCHANGED elsewhere

\* (mutant) a run that gathered nothing goes on to write the state
GatherSavesEmpty ==
    /\ pc = "scrape"
    /\ \E p \in Portals : LET snap == GatherAll(p) IN
         /\ portal' = p
         /\ all_items' = snap
         /\ IF snap = <<>>
            THEN /\ pc' = "persist"
                 /\ UNCHANGED <<current, changed_sections>>
            ELSE LET d == Diff(snap, LastOf(state))
                 IN /\ current' = d.current
                    /\ changed_sections' = d.changed
                    /\ pc' = AfterDiff(d.changed)
         /\ prev_run' = IF prev_run.items = snap THEN prev_run ELSE NoPrev
         /\ last_completed' = IF pc' = "done" THEN snap ELSE last_completed
    /\ UNCHANGED <<file, clock, state, digest, notif, effects, file_at_load>>
    /\ UNCHANGED elsewhere

\* the browser session gathers all_items; main returns when there are none,
\* computes current and changed_sections, and returns when nothing changed
Gather ==
    /\ pc = "scrape"
    /\ \E p \in Portals : LET snap == GatherAll(p) IN
         /\ portal' = p
         /\ all_items' = snap
         /\ IF snap = <<>>
            THEN /\ pc' = "done"
                 /\ UNCHANGED <<current, changed_sections>>
            ELSE LET d == Diff(snap, LastOf(state))
                 IN /\ current' = d.current
                    /\ changed_sections' = d.changed
                    /\ pc' = AfterDiff(d.changed)
         /\ prev_run' = IF prev_run.items = snap THEN prev_run ELSE NoPrev
         /\ last_completed' = IF pc' = "done" THEN snap ELSE last_completed
    /\ UNCHANGED <<file, clock, state, digest, notif, effects, file_at_load>>
    /\ UNCHANGED elsewhere

\* (mutant) the marker is written to the state file as soon as it is set
DecideAndStore ==
    /\ pc = "digest"
    /\ LET dg == build_digest(all_items)
           r  == should_send_digest(state, dg, clock)
       IN /\ digest' = dg
          /\ state' = r.state
          /\ IF r.send
             THEN pc' = "post" /\ notif' = notif /\ file' = Json(r.state)
             ELSE pc' = "persist" /\ notif' = "suppressed" /\ file' = file
    /\ UNCHANGED <<portal, clock, all_items, current, changed_sections, prev_run, hist>>
    /\ UNCHANGED elsewhere

\* digest = build_digest(all_items); should_send_digest(state, digest)
Decide ==
    /\ pc = "digest"
    /\ LET dg == build_digest(all_items)
           r  == should_send_digest(state, dg, clock)
       IN /\ digest' = dg
          /\ state' = r.state
          /\ IF r.send
             THEN pc' = "post" /\ notif' = notif
             ELSE pc' = "persist" /\ notif' = "suppressed"
    /\ UNCHANGED <<portal, file, clock, all_items, current, changed_sections, prev_run,
                   hist>>
    /\ UNCHANGED elsewhere

\* (mutant) post_telegram without its try/except: a failing request ends main
post_telegram_uncaught ==
    /\ pc = "post"
    /\ \E outcome \in {"unconfigured", "delivered", "failed"} :
         /\ notif' = outcome
         /\ pc' = IF outcome = "failed" THEN "aborted" ELSE "persist"
    /\ effects' = Append(effects, "post")
    /\ UNCHANGED <<portal, file, clock, state, all_items, current, changed_sections,
                   digest, prev_run, file_at_load, last_completed>>
    /\ UNCHANGED elsewhere

\* post_telegram(digest): returns at once without a token, and catches what
\* the request raises
post_telegram ==
    /\ pc = "post"
    /\ \E outcome \in {"unconfigured", "delivered", "failed"} :
         notif' = outcome
    /\ pc' = "persist"
    /\ effects' = Append(effects, "post")
    /\ UNCHANGED <<portal, file, clock, state, all_items, current, changed_sections,
                   digest, prev_run, file_at_load, last_completed>>
    /\ UNCHANGED elsewhere

\* (mutant) the assignment state["last"] = current is missing
SetLastSkipped ==
    /\ pc = "persist"
    /\ pc' = "open"
    /\ UNCHANGED <<portal, file, clock, state, all_items, current, changed_sections,
                   digest, notif, prev_run, hist>>
    /\ UNCHANGED elsewhere

\* (mutant) current is merged into the baseline the run loaded
SetLastMerged ==
    /\ pc = "persist"
    /\ state' = DictSet(state, "last",
                        [sec \in DOMAIN LastOf(state) \cup DOMAIN current |->
                            IF sec \in DOMAIN current THEN current[sec]
                            ELSE LastOf(state)[sec]])
    /\ pc' = "open"
    /\ UNCHANGED <<portal, file, clock, all_items, current, changed_sections, digest,
                   notif, prev_run, hist>>
    /\ UNCHANGED elsewhere

\* state["last"] = current
SetLast ==
    /\ pc = "persist"
    /\ state' = DictSet(state, "last", current)
    /\ pc' = "open"
    /\ UNCHANGED <<portal, file, clock, all_items, current, changed_sections, digest,
                   notif, prev_run, hist>>
    /\ UNCHANGED elsewhere

\* save_state: open(path, "w") empties the file, or raises
OpenForWrite ==
    /\ pc = "open"
    /\ \/ file' = Corrupt /\ pc' = "dump"
       \/ file' = file /\ pc' = "aborted"
    /\ effects' = Append(effects, "open")
    /\ UNCHANGED <<portal, clock, state, all_items, current, changed_sections, digest,
                   notif, prev_run, file_at_load, last_completed>>
    /\ UNCHANGED elsewhere

\* save_state: json.dump writes the dict, or raises part of the way
Dump ==
    /\ pc = "dump"
    /\ \/ file' = Json(state) /\ pc' = "done"
       \/ file' = Corrupt /\ pc' = "aborted"
    /\ effects' = Append(effects, "dump")
    /\ last_completed' = IF pc' = "done" THEN all_items ELSE last_completed
    /\ UNCHANGED <<portal, clock, state, all_items, current, changed_sections, digest,
                   notif, prev_run, file_at_load>>
    /\ UNCHANGED elsewhere

\* the process is killed
Crash ==
    /\ pc \in InRun
    /\ pc' = "crashed"
    /\ prev_run' = IF pc = "scrape" THEN NoPrev ELSE prev_run
    /\ UNCHANGED <<portal, file, clock, state, all_items, current, changed_sections,
                   digest, notif, hist>>
    /\ UNCHANGED elsewhere

\* time passes between runs
Tick ==
    /\ pc \in Rest
    /\ \E t \in Times : t > clock /\ clock' = t
    /\ UNCHANGED <<portal, file, pc, state, all_items, current, changed_sections,
                   digest, notif, prev_run, hist>>
    /\ UNCHANGED elsewhere

Next ==
    \/ LoadState
    \/ Gather
    \/ Decide
    \/ post_telegram
    \/ SetLast
    \/ OpenForWrite
    \/ Dump
    \/ Crash
    \/ Tick

Spec == Init /\ [][Next]_vars

(***************************************************************************)
(* The section fingerprint on its own: two item lists side by side         *)
(***************************************************************************)
MaxProbeLen == 2

\* a title as the inner text of a heading with a line break gives it
TwoLineTitle == <<"a", "|", "|", NL, "b">>

ProbeItems ==
    { Item(Messages, t, m, <<>>) : t \in {<<"a">>, <<"b">>, TwoLineTitle},
                                   m \in {<<>>, <<"m">>} }

\* the lists of up to MaxProbeLen items, and lists longer than the window
ProbeLists ==
    UNION { [1..n -> ProbeItems] : n \in 0..MaxProbeLen }
    \cup { LongList(k) : k \in {0, FingerprintWindow, FingerprintWindow + 1} }

\* h = sha(basis) for the items of two sections
Probe ==
    /\ probe_fa = <<>>
    /\ \E a, b \in ProbeLists :
         /\ probe_a' = a
         /\ probe_b' = b
         /\ probe_fa' = Fingerprint(a)
         /\ probe_fb' = Fingerprint(b)
    /\ UNCHANGED <<clock, monitor_vars, watcher_vars, helper_vars>>

ProbeNext == Probe

ProbeSpec == Init /\ [][ProbeNext]_vars

(***************************************************************************)
(* assignments_watcher.py                                                  *)
(***************************************************************************)
Ellipsis == "U+2026"

COOLDOWN_MINUTES == 60
WatcherWindow == 10
WatcherCap == 5

\* the order of the blocks in main and in build_digest
order == <<"consultations", "overdue", "due", "submitted">>

\* the block keys as text
KeyText ==
    [consultations |-> <<"c", "o", "n", "s", "u", "l", "t", "a", "t", "i", "o", "n", "s">>,
     overdue |-> <<"o", "v", "e", "r", "d", "u", "e">>,
     due |-> <<"d", "u", "e">>,
     submitted |-> <<"s", "u", "b", "m", "i", "t", "t", "e", "d">>]

titles ==
    [consultations |-> <<"G", "u", "a", "r", "d", "i", "a", "n", SP, "C", "o", "n", "s",
      "u", "l", "t", "a", "t", "i", "o", "n", "s">>,
     overdue |-> <<"O", "v", "e", "r", "d", "u", "e", SP, "A", "s", "s", "i", "g",
      "n", "m", "e", "n", "t", "s">>,
     due |-> <<"A", "s", "s", "i", "g", "n", "m", "e", "n", "t", "s", SP, "t",
      "h", "a", "t", SP, "a", "r", "e", SP, "d", "u", "e">>,
     submitted |-> <<"S", "u", "b", "m", "i", "t", "t", "e", "d", SP, "A", "s", "s",
      "i", "g", "n", "m", "e", "n", "t", "s">>]

WatcherHeading == <<"<", "b", ">", "A", "r", "b", "o", "r", SP, EmDash, SP, "u", "p",
      "d", "a", "t", "e", "s", "<", "/", "b", ">">>

\* hashlib.sha256(s).hexdigest()[:16]: equal texts give equal digests, and
\* different texts different ones
sha16(text) == <<"sha256:16">> \o text

\* f"{sec}|{it.get('title','')}|{it.get('meta','')}" for the first ten items
\* of every block, in order
RECURSIVE WatcherBasisLines(_, _)
WatcherBasisLines(secs, data) ==
    IF secs = <<>> THEN <<>>
    ELSE LET items == Take(data[secs[1]], WatcherWindow)
         IN [i \in 1..Len(items) |->
                KeyText[secs[1]] \o <<"|">> \o items[i].title \o <<"|">> \o items[i].meta]
            \o WatcherBasisLines(Tail(secs), data)

cur_hash(data) == sha16(Join(WatcherBasisLines(order, data), <<NL>>))

\* f"• {title}{meta}"
WatcherItemLine(it) ==
    <<Bullet, SP>> \o it.title
    \o (IF it.meta # <<>> THEN <<SP, EmDash, SP>> \o it.meta ELSE <<>>)

\* f"… and {len(items) - 5} more"
WatcherMoreLine(n) ==
    <<Ellipsis, SP, "a", "n", "d", SP>> \o str(n) \o <<SP, "m", "o", "r", "e">>

RECURSIVE WatcherBlocks(_, _)
WatcherBlocks(secs, changes) ==
    IF secs = <<>> THEN <<>>
    ELSE LET items == IF HasKey(changes, secs[1]) THEN changes[secs[1]] ELSE <<>>
             shown == Take(items, WatcherCap)
         IN (IF items = <<>> THEN <<>>
             ELSE <<<<"<", "b", ">">> \o titles[secs[1]] \o <<"<", "/", "b", ">">>>>
                  \o [i \in 1..Len(shown) |-> WatcherItemLine(shown[i])]
                  \o (IF Len(items) > WatcherCap
                      THEN <<WatcherMoreLine(Len(items) - WatcherCap)>> ELSE <<>>)
                  \o <<<<>>>>)
            \o WatcherBlocks(Tail(secs), changes)

\* build_digest of assignments_watcher.py
watcher_build_digest(changes) ==
    strip(Join(<<WatcherHeading, <<>>>> \o WatcherBlocks(order, changes), <<NL>>))

\* {k: v for k, v in data.items() if v}, or data when that is empty
changed_blocks(data) ==
    LET full == { k \in DOMAIN data : data[k] # <<>> }
    IN IF full = {} THEN data ELSE [k \in full |-> data[k]]

\* what extract_all returns
WItemA == [title |-> <<"a">>, meta |-> <<>>]
WItemB == [title |-> <<"b">>, meta |-> <<"m">>]

WLong(n, k) == [i \in 1..n |-> IF i = k THEN WItemB ELSE WItemA]

Blocks(overdue, due) ==
    [consultations |-> <<>>, overdue |-> overdue, due |-> due, submitted |-> <<>>]

WatcherDatas ==
    { Blocks(<<>>, <<>>),
      Blocks(<<>>, <<WItemA>>), Blocks(<<>>, <<WItemB>>),
      Blocks(<<WItemA>>, <<WItemB>>),
      Blocks(<<>>, WLong(WatcherCap + 1, 0)),
      Blocks(<<>>, WLong(WatcherWindow + 1, 0)),
      Blocks(<<>>, WLong(WatcherWindow + 1, WatcherWindow + 1)) }

\* the moments a run of the watcher can start at, in milliseconds
WatcherCooldown == timedelta_minutes(COOLDOWN_MINUTES)

WatcherTimes ==
    { k * WatcherCooldown + o :
        k \in 0..MaxPeriods, o \in {0, MsPerSecond - 1, WatcherCooldown - 1} }

\* int(time.time())
now_ts(t) == t \div MsPerSecond

WatcherRest == {"idle", "done", "crashed"}
WatcherInRun == {"extract", "decide", "send", "persist", "open", "dump"}

\* what a step of assignments_watcher.py leaves alone
WatcherElsewhere == <<monitor_vars, probe_vars, helper_vars>>

\* state.get(k, default)
Get(st, k, default) == IF HasKey(st, k) THEN st[k] ELSE default

\* a run starts: state = load_state(); whatever open or json.load raises
\* gives {}
WatcherLoadState ==
    /\ w_pc \in WatcherRest
    /\ w_pc' = "extract"
    /\ w_state' = IF w_file.kind = "json" THEN w_file.data ELSE EmptyDict
    /\ w_data' = EmptyDict
    /\ w_digest' = <<>>
    /\ w_notif' = "none"
    /\ w_effects' = <<"load">>
    /\ w_loaded' = w_state'
    /\ UNCHANGED <<w_file, clock>>
    /\ UNCHANGED WatcherElsewhere

\* data = extract_all(page); main returns when cur_hash is last_hash, and
\* builds the digest otherwise
Extract ==
    /\ w_pc = "extract"
    /\ \E data \in WatcherDatas :
         /\ w_data' = data
         /\ IF Get(w_state, "last_hash", <<>>) = cur_hash(data)
            THEN w_pc' = "done" /\ w_digest' = w_digest
            ELSE w_pc' = "decide" /\ w_digest' = watcher_build_digest(changed_blocks(data))
    /\ UNCHANGED <<w_file, clock, w_state, w_notif, w_effects>>
    /\ UNCHANGED w_loaded
    /\ UNCHANGED WatcherElsewhere

\* the cooldown of main: the digest is not sent when cur_hash is the hash
\* last sent and less than COOLDOWN_MINUTES * 60 seconds have passed
WatcherDecide ==
    /\ w_pc = "decide"
    /\ IF /\ Get(w_state, "last_sent_hash", <<>>) = cur_hash(w_data)
          /\ now_ts(clock) - Get(w_state, "last_sent_ts", 0) < COOLDOWN_MINUTES * 60
       THEN w_pc' = "persist" /\ w_notif' = "suppressed"
       ELSE w_pc' = "send" /\ w_notif' = w_notif
    /\ UNCHANGED <<w_file, clock, w_state, w_data, w_digest, w_effects>>
    /\ UNCHANGED w_loaded
    /\ UNCHANGED WatcherElsewhere

\* (mutant) last_sent_hash and last_sent_ts are set only when the message
\* was delivered
send_telegram_marks_delivery ==
    /\ w_pc = "send"
    /\ \E outcome \in {"unconfigured", "delivered", "failed"} :
         /\ w_notif' = outcome
         /\ w_state' = IF outcome = "delivered"
                       THEN DictSet(DictSet(w_state, "last_sent_hash", cur_hash(w_data)),
                                    "last_sent_ts", now_ts(clock))
                       ELSE w_state
    /\ w_pc' = "persist"
    /\ w_effects' = Append(w_effects, "send")
    /\ UNCHANGED <<w_file, clock, w_data, w_digest>>
    /\ UNCHANGED w_loaded
    /\ UNCHANGED WatcherElsewhere

\* send_telegram(digest), which raises nothing, and the two assignments
\* after it
send_telegram ==
    /\ w_pc = "send"
    /\ \E outcome \in {"unconfigured", "delivered", "failed"} :
         w_notif' = outcome
    /\ w_state' = DictSet(DictSet(w_state, "last_sent_hash", cur_hash(w_data)),
                          "last_sent_ts", now_ts(clock))
    /\ w_pc' = "persist"
    /\ w_effects' = Append(w_effects, "send")
    /\ UNCHANGED <<w_file, clock, w_data, w_digest>>
    /\ UNCHANGED w_loaded
    /\ UNCHANGED WatcherElsewhere

\* state["last_hash"] = cur_hash
SetLastHash ==
    /\ w_pc = "persist"
    /\ w_state' = DictSet(w_state, "last_hash", cur_hash(w_data))
    /\ w_pc' = "open"
    /\ UNCHANGED <<w_file, clock, w_data, w_digest, w_notif, w_effects>>
    /\ UNCHANGED w_loaded
    /\ UNCHANGED WatcherElsewhere

\* save_state: open(STATE_FILE, "w") empties the file; when it raises,
\* save_state passes and main prints the digest and returns 0
WatcherOpen ==
    /\ w_pc = "open"
    /\ \/ w_file' = Corrupt /\ w_pc' = "dump" /\ w_effects' = Append(w_effects, "open")
       \/ w_file' = w_file /\ w_pc' = "done"
          /\ w_effects' = Append(w_effects, "open failed")
    /\ UNCHANGED <<clock, w_state, w_data, w_digest, w_notif>>
    /\ UNCHANGED w_loaded
    /\ UNCHANGED WatcherElsewhere

\* save_state: json.dump writes the dict; when it raises part of the way,
\* save_state passes and main prints the digest and returns 0
WatcherDump ==
    /\ w_pc = "dump"
    /\ \/ w_file' = Json(w_state) /\ w_effects' = Append(w_effects, "dump")
       \/ w_file' = Corrupt /\ w_effects' = Append(w_effects, "dump failed")
    /\ w_pc' = "done"
    /\ UNCHANGED <<clock, w_state, w_data, w_digest, w_notif>>
    /\ UNCHANGED w_loaded
    /\ UNCHANGED WatcherElsewhere

\* the process is killed
WatcherCrash ==
    /\ w_pc \in WatcherInRun
    /\ w_pc' = "crashed"
    /\ UNCHANGED <<w_file, clock, w_state, w_data, w_digest, w_notif, w_effects>>
    /\ UNCHANGED w_loaded
    /\ UNCHANGED WatcherElsewhere

\* time passes between runs
WatcherTick ==
    /\ w_pc \in WatcherRest
    /\ \E t \in WatcherTimes : t > clock /\ clock' = t
    /\ UNCHANGED watcher_vars
    /\ UNCHANGED WatcherElsewhere

WatcherNext ==
    \/ WatcherLoadState
    \/ Extract
    \/ WatcherDecide
    \/ send_telegram
    \/ SetLastHash
    \/ WatcherOpen
    \/ WatcherDump
    \/ WatcherCrash
    \/ WatcherTick

WatcherSpec == Init /\ [][WatcherNext]_vars

(***************************************************************************)
(* What the claims speak of                                                *)
(***************************************************************************)
\* the sections of a run: those that have an item in all_items
SectionsOf(items) == { items[i].section : i \in 1..Len(items) }

\* the elements of a list
Elems(s) == { s[i] : i \in 1..Len(s) }

\* the run gathered items and found no section changed
NoChangeRun == pc = "done" /\ all_items # <<>> /\ changed_sections = <<>>

\* the last-sent marker of a state dict
Marker(d) ==
    [sha |-> IF HasKey(d, "last_digest_sha") THEN d["last_digest_sha"] ELSE <<>>,
     at  |-> IF HasKey(d, "last_digest_at") THEN d["last_digest_at"] ELSE -1]

\* C1: a run whose changed set is empty builds no digest, does not call the
\* Notifier and does not write the state file: it only loaded the state, and
\* the file is the one it found, last-sent marker included.
C1_NoChangeIsNoOp ==
    NoChangeRun =>
        /\ digest = <<>>
        /\ notif = "none"
        /\ effects = <<"load">>
        /\ file = file_at_load
        /\ file.kind = "json"
        /\ file.data = state

C1_Witness ==
    /\ NoChangeRun
    /\ HasKey(file.data, "last_digest_sha")
    /\ Len(all_items) > 1

\* C2: when a run that gathered at least one item has returned, and the next
\* run gathers the same items, that run finds no section changed and ends
\* without a call of the Notifier.
C2_NoOpStability ==
    (prev_run.completed /\ all_items # <<>> /\ prev_run.items = all_items) =>
        /\ changed_sections = <<>>
        /\ pc = "done"
        /\ notif = "none"
        /\ ~("post" \in Elems(effects))

C2_Witness ==
    /\ prev_run.completed
    /\ prev_run.notif = "failed"
    /\ all_items # <<>>
    /\ prev_run.items = all_items
    /\ pc = "done"

\* C3: after the diff, changed_sections holds exactly the sections of the
\* run whose fingerprint is not the baseline's entry of that name (a missing
\* entry counts as different), each once; with an empty baseline it holds
\* every section of the run.
C3_ChangedSet ==
    (pc \in {"digest", "post", "persist"} \/ NoChangeRun) =>
        LET last == LastOf(file_at_load.data)
            want == { sec \in SectionsOf(all_items) :
                        \/ sec \notin DOMAIN last
                        \/ last[sec] # Fingerprint(SectionItems(all_items, sec)) }
        IN /\ Elems(changed_sections) = want
           /\ Len(changed_sections) = Cardinality(want)
           /\ (DOMAIN last = {} => Elems(changed_sections) = SectionsOf(all_items))

C3_Witness ==
    /\ pc = "digest"
    /\ Len(changed_sections) = 1
    /\ Cardinality(SectionsOf(all_items)) = 2
    /\ LastOf(file_at_load.data) # EmptyDict

C3_WitnessEmptyBaseline ==
    /\ pc = "digest"
    /\ file_at_load = Absent
    /\ Len(changed_sections) = 2

\* section -> fingerprint of the first FingerprintWindow items of the section
FingerprintsOf(items) ==
    [sec \in SectionsOf(items) |-> Fingerprint(SectionItems(items, sec))]

\* the file holds a baseline that gives every section of items its fingerprint
BaselineCovers(f, items) ==
    \A sec \in SectionsOf(items) :
       /\ HasKey(LastOf(f.data), sec)
       /\ LastOf(f.data)[sec] = Fingerprint(SectionItems(items, sec))

\* the file holds exactly the fingerprints of this run as its baseline
BaselineIsCurrent ==
    /\ file.kind = "json"
    /\ LastOf(file.data) = current
    /\ current = FingerprintsOf(all_items)

\* C4: whatever runs came before (returned, killed or ended by an error
\* before the write; notification sent, suppressed or failed), a readable
\* state file gives every section of the latest run that returned the
\* fingerprint of that run's items, and the section mapping of a readable
\* file is only ever changed by the step that completes a run.
C4_BaselineOfLastCompletedRun ==
    /\ [](file.kind # "corrupt" =>
            BaselineCovers(file, last_completed))
    /\ [][ (file'.kind # "corrupt" /\ LastOf(file'.data) # LastOf(file.data))
             => pc' = "done" ]_vars

C4_Witness ==
    /\ pc = "crashed"
    /\ notif = "failed"
    /\ last_completed # <<>>
    /\ file.kind = "json"
    /\ FingerprintsOf(all_items) # FingerprintsOf(last_completed)

\* the digest of this run is the one recorded as last sent, less than the
\* cooldown before the time of this run
InCooldown ==
    LET m == Marker(file_at_load.data)
    IN /\ m.at >= 0
       /\ m.sha = digest_sha(digest)
       /\ clock - m.at * MsPerSecond < Cooldown

\* the run has made its decision on sending and has not ended
Decided == pc \in {"post", "persist", "open", "dump"}

\* C5: on a run with a changed section, when the normalized fingerprint of
\* the digest equals the recorded last-sent fingerprint and less than 30
\* minutes have passed since the recorded time, the Notifier is not called;
\* and a suppressed run that returns has written this run's fingerprints as
\* the baseline.
C5_CooldownSuppression ==
    /\ (Decided /\ InCooldown) =>
          (notif = "suppressed" /\ ~("post" \in Elems(effects)))
    /\ (pc = "done" /\ notif = "suppressed") =>
          (BaselineIsCurrent /\ ~("post" \in Elems(effects)))

C5_Witness ==
    /\ pc = "done"
    /\ notif = "suppressed"
    /\ InCooldown
    /\ clock - Marker(file_at_load.data).at * MsPerSecond = Cooldown - 1
    /\ LastOf(file_at_load.data) # current

\* C6: on a run with a changed section, when the digest's fingerprint is not
\* the recorded last-sent one, or none is recorded, or 30 minutes or more
\* have passed since the recorded time, the run goes on to the Notifier and
\* the marker becomes the digest's fingerprint with the current time (to the
\* second); the Notifier has been called once the run is past that call, and
\* a run that returns after it has written that marker.
C6_DeliveryOutsideCooldown ==
    /\ (Decided /\ ~InCooldown) =>
          /\ notif # "suppressed"
          /\ Marker(state) = [sha |-> digest_sha(digest),
                              at  |-> clock \div MsPerSecond]
          /\ (pc # "post" => "post" \in Elems(effects))
    /\ (pc = "done" /\ "post" \in Elems(effects)) =>
          /\ Marker(file.data) = Marker(state)
          /\ Marker(state).sha = digest_sha(digest)

C6_Witness ==
    /\ pc = "done"
    /\ notif = "delivered"
    /\ Marker(file_at_load.data).sha = digest_sha(digest)
    /\ clock - Marker(file_at_load.data).at * MsPerSecond = Cooldown

\* C7: a failure of the Notifier call does not end the run: the run is only
\* ended by an error once it is writing the state file, and when it returns
\* it has written this run's fingerprints as the baseline.
C7_NotifierFailureDoesNotAbort ==
    notif = "failed" =>
        /\ (pc = "aborted" => "open" \in Elems(effects))
        /\ (pc = "done" => BaselineIsCurrent)

C7_Witness ==
    /\ pc = "done"
    /\ notif = "failed"
    /\ file_at_load.kind = "json"
    /\ LastOf(file_at_load.data) # LastOf(file.data)

\* C8: when the Notifier call fails on the run that detects a change and
\* the next run gathers the same items, the change is still reported: that
\* run calls the Notifier.
C8_FailedNotificationIsRetried ==
    (/\ prev_run.completed
     /\ prev_run.notif = "failed"
     /\ all_items # <<>>
     /\ prev_run.items = all_items
     /\ pc = "done")
    => "post" \in Elems(effects)

\* C9: on a run whose Notifier call fails, or does nothing for want of a
\* token, last_digest_sha and last_digest_at keep the values the run found.
C9_MarkerOnlyAfterDelivery ==
    (pc \in {"persist", "open", "dump", "done"} /\ notif \in {"failed", "unconfigured"})
    => Marker(state) = Marker(file_at_load.data)

\* C10: until save_state opens the file, the state file is the one the run
\* found, wherever the run is stopped; a run reads the file once, as its
\* first effect, opens it for writing at most once, and does nothing after
\* the write but end; and the run after one that was stopped before the
\* write loads what that run had found.
C10_CrashSafety ==
    /\ [](/\ ~("open" \in Elems(effects)) => file = file_at_load
          /\ effects # <<>> =>
                /\ effects[1] = "load"
                /\ \A i \in 2..Len(effects) : effects[i] # "load"
          /\ Cardinality({ i \in 1..Len(effects) : effects[i] = "open" }) <= 1
          /\ \A i \in 1..Len(effects) :
                effects[i] = "open" =>
                   \A j \in (i + 1)..Len(effects) : effects[j] = "dump"
          /\ "dump" \in Elems(effects) => pc \in Rest)
    /\ [][ (pc \in {"crashed", "aborted"} /\ ~("open" \in Elems(effects))
            /\ pc' = "scrape")
           => state' = file_at_load.data ]_vars

C10_Witness ==
    /\ pc = "crashed"
    /\ "post" \in Elems(effects)
    /\ ~("open" \in Elems(effects))
    /\ file.kind = "json"
    /\ Marker(state) # Marker(file.data)
    /\ current # LastOf(file.data)

\* C11: a run stopped at any point, the state write included, leaves the
\* state file as the run found it, and between runs the state file is never
\* an empty or partly written one.
C11_AtomicPersistence ==
    /\ pc \in {"crashed", "aborted"} => file = file_at_load
    /\ pc \in Rest => file.kind # "corrupt"

\* C12: a run that finds the state file missing or unparseable is not ended
\* by the read; it goes on with an empty baseline and every section it
\* gathered is in changed_sections.
C12_ReadFailureIsNotFatal ==
    (effects # <<>> /\ file_at_load.kind \in {"absent", "corrupt"})
    => /\ ~(pc = "aborted" /\ effects = <<"load">>)
       /\ current # EmptyDict => Elems(changed_sections) = SectionsOf(all_items)

\* C13: in a run with a non-empty changed_sections, save_state is reached
\* only after the Notifier decision: when the state file is opened for
\* writing the run has either suppressed the digest or called post_telegram,
\* and the call comes before the open.
C13_NotifyBeforePersist ==
    \A i \in 1..Len(effects) :
        effects[i] = "open" =>
            /\ changed_sections # <<>>
            /\ \/ notif = "suppressed"
               \/ /\ notif \in {"unconfigured", "delivered", "failed"}
                  /\ \E j \in 1..(i - 1) : effects[j] = "post"

\* the write fails although the Notifier had been called
C13_Witness ==
    /\ pc = "aborted"
    /\ effects = <<"load", "post", "open", "dump">>
    /\ notif = "delivered"
    /\ changed_sections # <<>>

\* save_state of the watcher did not write the state of this run
WatcherWriteFailed ==
    "open failed" \in Elems(w_effects) \/ "dump failed" \in Elems(w_effects)

\* C14: a run whose state write failed does not end as a run whose write
\* succeeded does, with main returning 0.
C14_WriteFailureIsSurfaced ==
    WatcherWriteFailed => w_pc # "done"

\* the baseline the run diffs against
BaselineAtLoad == LastOf(file_at_load.data)

\* C15: a section the baseline has and the run did not gather is never in
\* changed_sections, and when every gathered section has the fingerprint of
\* its baseline entry the run ends without a digest and without a call of
\* the Notifier, whatever else the baseline holds.
C15_VanishedSectionIsNoChange ==
    /\ Elems(changed_sections) \subseteq SectionsOf(all_items)
    /\ (/\ current # EmptyDict
        /\ \A sec \in SectionsOf(all_items) :
              HasKey(BaselineAtLoad, sec) /\ BaselineAtLoad[sec] = current[sec])
       => /\ changed_sections = <<>>
          /\ pc = "done"
          /\ digest = <<>>
          /\ notif = "none"
          /\ effects = <<"load">>

\* a run that gathered fewer sections than the baseline holds, all unchanged
C15_Witness ==
    /\ NoChangeRun
    /\ current # EmptyDict
    /\ DOMAIN BaselineAtLoad \ SectionsOf(all_items) # {}

(***************************************************************************)
(* Reading the digest text                                                 *)
(***************************************************************************)
\* a line f"• {sec}"
IsSectionLine(l) == Len(l) >= 2 /\ l[1] = Bullet /\ l[2] = SP

SectionOfLine(l) == SubSeq(l, 3, Len(l))

\* the positions of the section lines among the lines of a digest
SectionLineAt(lines) == { i \in 1..Len(lines) : IsSectionLine(lines[i]) }

\* the sections a digest names
DigestSections(lines) == { SectionOfLine(lines[i]) : i \in SectionLineAt(lines) }

\* the lines under the section line at position i, up to the next section line
BlockOf(lines, i) ==
    LET later == { j \in SectionLineAt(lines) : j > i }
        stop  == IF later = {} THEN Len(lines) + 1
                 ELSE CHOOSE j \in later : \A k \in later : j <= k
    IN SubSeq(lines, i + 1, stop - 1)

\* Decide has just built the digest; no later step of the run changes it
DigestBuilt == pc = "post" \/ (pc = "persist" /\ notif = "suppressed")

\* C16 as the spec has it: the digest names only sections of the changed
\* set; a gathered section whose fingerprint equals its baseline entry is
\* not in the digest.
C16_DigestOnlyChangedSections ==
    digest # <<>> => DigestSections(splitlines(digest)) \subseteq Elems(changed_sections)

\* C16: the digest is built only when changed_sections is not empty, and it
\* then names every section of all_items, each once, whether or not the
\* section is in changed_sections.
C16_DigestOfAllSections ==
    /\ digest # <<>> => changed_sections # <<>>
    /\ DigestBuilt =>
          LET lines == splitlines(digest)
          IN /\ digest # <<>>
             /\ DigestSections(lines) = SectionsOf(all_items)
             /\ Cardinality(SectionLineAt(lines)) = Cardinality(SectionsOf(all_items))

\* a digest with an unchanged section reaches the Notifier
C16_Witness ==
    /\ notif = "delivered"
    /\ \E sec \in DigestSections(splitlines(digest)) :
          /\ ~(sec \in Elems(changed_sections))
          /\ HasKey(BaselineAtLoad, sec)
          /\ BaselineAtLoad[sec] = current[sec]

\* C19: the digest lists the sections in ascending order of their names,
\* and under each section line come the lines of the first DigestCap items
\* of that section, in the order of all_items, and no other line.
C19_DigestLayout ==
    DigestBuilt =>
        LET lines == splitlines(digest)
            at    == SectionLineAt(lines)
        IN /\ lines[1] = Heading
           /\ \A i \in 2..Len(lines) : lines[i] # Heading
           /\ \A i, j \in at :
                 i < j => StrLess(SectionOfLine(lines[i]), SectionOfLine(lines[j]))
           /\ \A i \in at :
                 LET its   == SectionItems(all_items, SectionOfLine(lines[i]))
                     n     == IF Len(its) < DigestCap THEN Len(its) ELSE DigestCap
                     block == BlockOf(lines, i)
                 IN /\ Len(block) = n
                    /\ \A k \in 1..n : block[k] = ItemLine(its[k])

\* a digest of two sections gathered in descending order of their names, and
\* one of a section with more items than the cap
C19_Witness ==
    /\ digest # <<>>
    /\ \/ /\ Len(all_items) = 2
          /\ StrLess(all_items[2].section, all_items[1].section)
       \/ /\ Len(all_items) > DigestCap
          /\ all_items[DigestCap + 1] # all_items[1]
          /\ \E i \in SectionLineAt(splitlines(digest)) :
                Len(BlockOf(splitlines(digest), i)) = DigestCap

\* the line "... and N more"
MoreLine(n) == <<".", ".", ".", SP, "a", "n", "d", SP>> \o str(n) \o <<SP, "m", "o", "r", "e">>

EndsWithMore(l) == Len(l) >= 4 /\ SubSeq(l, Len(l) - 3, Len(l)) = <<"m", "o", "r", "e">>

\* C20: a section of the digest with more items than DigestCap has, after
\* the lines of its first DigestCap items, the line "... and N more" with N
\* the number of items left out; a section with no more items than the cap
\* has no such line.
C20_TruncationMarker ==
    digest # <<>> =>
        LET lines == splitlines(digest)
        IN \A i \in SectionLineAt(lines) :
              LET n     == Len(SectionItems(all_items, SectionOfLine(lines[i])))
                  block == BlockOf(lines, i)
              IN IF n > DigestCap
                 THEN /\ Len(block) = DigestCap + 1
                      /\ block[DigestCap + 1] = MoreLine(n - DigestCap)
                 ELSE \A k \in 1..Len(block) : ~EndsWithMore(block[k])

\* C18: once a run has diffed, every section it fetched has an entry in
\* current; a section fetched with no items has the fingerprint of the empty
\* string there, and is in changed_sections when the baseline held another
\* fingerprint for it.
C18_EmptySectionIsFingerprinted ==
    pc \in {"digest", "post", "persist", "open", "dump", "done"} =>
        \A sec \in DOMAIN portal :
            portal[sec] = <<>> =>
                /\ HasKey(current, sec)
                /\ current[sec] = sha(<<>>)
                /\ (HasKey(BaselineAtLoad, sec) /\ BaselineAtLoad[sec] # sha(<<>>))
                   => sec \in Elems(changed_sections)

\* the first FingerprintWindow items of a and of b agree, position by
\* position, in title, meta and when
WindowAgrees(a, b) ==
    LET wa == Take(a, FingerprintWindow)
        wb == Take(b, FingerprintWindow)
    IN /\ Len(wa) = Len(wb)
       /\ \A i \in 1..Len(wa) :
             /\ wa[i].title = wb[i].title
             /\ wa[i].meta = wb[i].meta
             /\ wa[i].when = wb[i].when

\* C17: two item lists have the same section fingerprint exactly when their
\* first FingerprintWindow items agree, position by position, in title, meta
\* and when.
C17_FingerprintIffWindowAgrees ==
    probe_fa # <<>> => ((probe_fa = probe_fb) <=> WindowAgrees(probe_a, probe_b))

(***************************************************************************)
(* assignments_watcher.py: what the claims speak of                        *)
(***************************************************************************)
\* the run has extracted the blocks
Extracted == w_data # EmptyDict

\* the hash of this run differs from the last_hash the run loaded
HashChanged == Extracted /\ Get(w_loaded, "last_hash", <<>>) # cur_hash(w_data)

\* the hash of this run is the one last sent, less than COOLDOWN_MINUTES ago
WatcherInCooldown ==
    /\ Get(w_loaded, "last_sent_hash", <<>>) = cur_hash(w_data)
    /\ now_ts(clock) - Get(w_loaded, "last_sent_ts", 0) < COOLDOWN_MINUTES * 60

\* the change rule of the watcher up to the state write: a send only on a
\* changed hash; an unchanged hash ends the run with nothing sent and
\* nothing written; a changed hash is sent unless in cooldown
WatcherChangeRule ==
    /\ "send" \in Elems(w_effects) => HashChanged
    /\ (Extracted /\ ~HashChanged) =>
          /\ w_pc = "done"
          /\ w_effects = <<"load">>
          /\ w_state = w_loaded
    /\ (HashChanged /\ w_pc \in {"persist", "open", "dump", "done"}) =>
          ("send" \in Elems(w_effects) <=> ~WatcherInCooldown)

\* C22: a run of the watcher sends only when the hash differs from the
\* last_hash it loaded; on an equal hash nothing is sent and the state is
\* not written; on a different hash a send is attempted unless the hash is
\* last_sent_hash and less than 60 minutes have passed; and a run that
\* found a different hash ends with last_hash in the state file equal to
\* the hash of the run.
C22_WatcherChangeRule ==
    /\ WatcherChangeRule
    /\ (HashChanged /\ w_pc = "done") =>
          /\ w_file.kind = "json"
          /\ Get(w_file.data, "last_hash", <<>>) = cur_hash(w_data)

\* C25: in the state file last_hash and last_sent_hash are both absent or
\* both the same hash; no run suppresses a digest; and a run that found a
\* changed hash calls send_telegram before it turns to the state file.
C25_LastHashIsLastSentHash ==
    /\ Get(w_file.data, "last_hash", <<>>) = Get(w_file.data, "last_sent_hash", <<>>)
    /\ w_notif # "suppressed"
    /\ (HashChanged /\ w_pc \in {"persist", "open", "dump", "done"}) =>
          "send" \in Elems(w_effects)

\* a change found less than COOLDOWN_MINUTES after the last send, by a run
\* that loaded a state written by an earlier run, is sent and written
C25_Witness ==
    /\ w_pc = "done"
    /\ HashChanged
    /\ HasKey(w_loaded, "last_sent_hash")
    /\ now_ts(clock) - w_loaded["last_sent_ts"] < COOLDOWN_MINUTES * 60
    /\ "send" \in Elems(w_effects)
    /\ w_file = Json(w_state)
    /\ w_state["last_hash"] = cur_hash(w_data)

(***************************************************************************)
(* monitor_arbor_portal.py: the claims on lost changes, the baseline and    *)
(* the cooldown                                                            *)
(***************************************************************************)
\* a section whose record DigestCap + 1 differs from that of LongList(0):
\* inside the fingerprint window, outside what the digest shows
ChangedBelowCap == LongList(DigestCap + 1)

\* the run has diffed
Diffed == pc \in {"digest", "post", "persist", "open", "dump", "done"}

\* C24: a change confined to record 9 of a section puts the section in
\* changed_sections while the digest is the one of the unchanged list; a
\* run that suppresses its digest does so within the cooldown of the
\* recorded send, leaves the marker as it found it and, when it returns,
\* has written its fingerprints as the baseline; and the next run on the
\* same items finds nothing changed and does not call the Notifier.
C24_LostChangeUnderCooldown ==
    /\ (/\ Diffed
        /\ all_items = ChangedBelowCap
        /\ LastOf(file_at_load.data) = FingerprintsOf(LongList(0)))
       => /\ changed_sections = <<Messages>>
          /\ digest # <<>> => digest = build_digest(LongList(0))
    /\ notif = "suppressed" =>
          /\ changed_sections # <<>>
          /\ Decided => InCooldown
          /\ Marker(state) = Marker(file_at_load.data)
          /\ ~("post" \in Elems(effects))
          /\ pc = "done" => BaselineIsCurrent
    /\ (/\ prev_run.completed
        /\ prev_run.notif = "suppressed"
        /\ all_items # <<>>
        /\ prev_run.items = all_items)
       => /\ pc = "done"
          /\ changed_sections = <<>>
          /\ notif = "none"
          /\ effects = <<"load">>
          /\ file = file_at_load

\* the run after the one that suppressed the digest of the change at
\* record 9: the baseline holds the new fingerprint, nothing was sent
C24_Witness ==
    /\ pc = "done"
    /\ notif = "none"
    /\ prev_run.completed
    /\ prev_run.notif = "suppressed"
    /\ prev_run.items = all_items
    /\ all_items = ChangedBelowCap
    /\ LastOf(file.data) = FingerprintsOf(ChangedBelowCap)
    /\ Marker(file.data).sha = digest_sha(build_digest(LongList(0)))

\* C26: when a run with a non-empty changed_sections has returned, the
\* baseline in the state file has exactly the sections the run gathered
\* items for, with the fingerprints of this run; and a run that gathers a
\* section the loaded baseline has no entry for has it in changed_sections.
C26_BaselineOverwrittenWholesale ==
    /\ (pc = "done" /\ changed_sections # <<>>) =>
          /\ file.kind = "json"
          /\ DOMAIN LastOf(file.data) = SectionsOf(all_items)
          /\ LastOf(file.data) = current
    /\ Diffed =>
          \A sec \in SectionsOf(all_items) :
              ~HasKey(LastOf(file_at_load.data), sec) => sec \in Elems(changed_sections)

\* a run that gathered nothing for a section of the loaded baseline, found
\* another section changed, and has written a baseline without that section
C26_Witness ==
    /\ pc = "done"
    /\ changed_sections # <<>>
    /\ \E sec \in DOMAIN LastOf(file_at_load.data) :
          /\ ~(sec \in SectionsOf(all_items))
          /\ ~HasKey(LastOf(file.data), sec)

\* C27: a run that suppresses its digest leaves last_digest_sha and
\* last_digest_at as it found them, in the state dict and in the file it
\* writes; the marker is only replaced by a run that called the Notifier,
\* and is stamped with the time of that run; and no run that starts 30
\* minutes or more after the recorded time suppresses its digest.
C27_SuppressionKeepsTheMarker ==
    /\ notif = "suppressed" =>
          /\ Marker(state) = Marker(file_at_load.data)
          /\ pc = "done" => Marker(file.data) = Marker(file_at_load.data)
    /\ (pc = "done" /\ Marker(file.data) # Marker(file_at_load.data)) =>
          /\ "post" \in Elems(effects)
          /\ Marker(file.data) = Marker(state)
    /\ pc = "post" => Marker(state).at = clock \div MsPerSecond
    /\ (/\ Decided
        /\ Marker(file_at_load.data).at >= 0
        /\ clock - Marker(file_at_load.data).at * MsPerSecond >= Cooldown)
       => notif # "suppressed"

\* a digest suppressed in the last millisecond of the cooldown: the file
\* the run has written still carries the time of the send
C27_Witness ==
    /\ pc = "done"
    /\ notif = "suppressed"
    /\ "dump" \in Elems(effects)
    /\ Marker(file.data) = Marker(file_at_load.data)
    /\ Marker(file.data).at * MsPerSecond + Cooldown - 1 = clock
    /\ LastOf(file.data) # LastOf(file_at_load.data)

\* C28: a run that gathered no item at all has returned without a diff,
\* without a digest, without a call of the Notifier and without opening
\* the state file: the file, baseline and marker included, is the one the
\* run found.
C28_EmptySnapshotIsNoOp ==
    (pc = "done" /\ all_items = <<>>) =>
        /\ current = EmptyDict
        /\ changed_sections = <<>>
        /\ digest = <<>>
        /\ notif = "none"
        /\ effects = <<"load">>
        /\ state = file_at_load.data
        /\ file = file_at_load

\* such a run on a state file that holds a baseline and a marker
C28_Witness ==
    /\ pc = "done"
    /\ all_items = <<>>
    /\ effects = <<"load">>
    /\ LastOf(file.data) # EmptyDict
    /\ Marker(file.data).at >= 0

\* ---------------------------------------------------------------------
\* polite_request_with_backoff(fn, max_attempts, base_delay, max_delay)
\*
\* fn is the caller's request; an invocation of it either returns a value
\* or raises an Exception.  Delays are in tenths of a second.

MaxAttempts == 6

base_delay == 20

max_delay == 600

\* random.uniform(0.7, 1.3), in tenths: its two ends and its middle
Jitters == {7, 10, 13}

Min(a, b) == IF a <= b THEN a ELSE b

\* delay = min(max_delay, base_delay * (2 ** (attempt - 1))); delay *= jitter
backoff_delay(attempt, jitter) ==
    (Min(max_delay, base_delay * (2 ^ (attempt - 1))) * jitter) \div 10

\* what an invocation of fn can return
FnValues == {"r1", "r2"}

Returns(v) == [kind |-> "return", val |-> v]

\* the exception raised by the i-th invocation of fn
Raises(i) == [kind |-> "raise", val |-> i]

retrying_once_more(attempt, max_attempts) == attempt <= max_attempts

\* while attempt < max_attempts
retrying(attempt, max_attempts) == attempt < max_attempts

BackoffElsewhere == <<clock, monitor_vars, watcher_vars, probe_vars, fetch_vars, export_vars>>

\* the call: attempt = 0
BackoffCall ==
    /\ b_pc = "idle"
    /\ \E n \in 0..MaxAttempts : b_max_attempts' = n
    /\ b_attempt' = 0
    /\ b_pc' = "loop"
    /\ UNCHANGED <<b_delay, b_outs, b_result, BackoffElsewhere>>

\* one pass of the loop body: try: return fn(); except Exception: attempt += 1,
\* delay computed
BackoffTry ==
    /\ b_pc = "loop"
    /\ retrying(b_attempt, b_max_attempts)
    /\ \/ \E v \in FnValues :
            /\ b_outs' = Append(b_outs, Returns(v))
            /\ b_result' = Returns(v)
            /\ b_pc' = "returned"
            /\ UNCHANGED <<b_attempt, b_delay>>
       \/ \E j \in Jitters :
            /\ b_outs' = Append(b_outs, Raises(Len(b_outs) + 1))
            /\ b_attempt' = b_attempt + 1
            /\ b_delay' = backoff_delay(b_attempt + 1, j)
            /\ b_pc' = "sleep"
            /\ UNCHANGED b_result
    /\ UNCHANGED <<b_max_attempts, BackoffElsewhere>>

\* time.sleep(delay) returns
BackoffSleep ==
    /\ b_pc = "sleep"
    /\ b_pc' = "loop"
    /\ UNCHANGED <<b_max_attempts, b_attempt, b_delay, b_outs, b_result, BackoffElsewhere>>

\* after the loop: return fn(), outside any try
BackoffFinal ==
    /\ b_pc = "loop"
    /\ ~retrying(b_attempt, b_max_attempts)
    /\ \/ \E v \in FnValues :
            /\ b_outs' = Append(b_outs, Returns(v))
            /\ b_result' = Returns(v)
            /\ b_pc' = "returned"
       \/ /\ b_outs' = Append(b_outs, Raises(Len(b_outs) + 1))
          /\ b_result' = Raises(Len(b_outs) + 1)
          /\ b_pc' = "raised"
    /\ UNCHANGED <<b_max_attempts, b_attempt, b_delay, BackoffElsewhere>>

BackoffNext ==
    \/ BackoffCall
    \/ BackoffTry
    \/ BackoffSleep
    \/ BackoffFinal

\* fn and time.sleep return: a call in progress takes its next step
BackoffSpec == Init /\ [][BackoffNext]_vars /\ WF_vars(BackoffNext)

BackoffFinished == b_pc \in {"returned", "raised"}

Invocations == Len(b_outs)

BackoffSafe ==
    /\ Invocations <= b_max_attempts + 1
    /\ \A i \in 1..Invocations :
          b_outs[i].kind = "return"
              => i = Invocations /\ b_pc = "returned" /\ b_result = b_outs[i]
    /\ b_pc = "returned" =>
          /\ Invocations >= 1
          /\ b_outs[Invocations].kind = "return"
          /\ b_result = b_outs[Invocations]
    /\ b_pc = "raised" =>
          /\ Invocations = b_max_attempts + 1
          /\ b_result = Raises(b_max_attempts + 1)
          /\ b_outs[Invocations] = b_result
    /\ (/\ BackoffFinished
        /\ Invocations >= b_max_attempts
        /\ \A i \in 1..b_max_attempts : b_outs[i].kind = "raise")
          => /\ Invocations = b_max_attempts + 1
             /\ b_result = b_outs[b_max_attempts + 1]
    /\ b_pc = "sleep" => b_delay \in 0..((max_delay * 13) \div 10)

\* C23: polite_request_with_backoff(fn, max_attempts=n) always terminates,
\* invokes fn at most n+1 times, stops at the first invocation that returns
\* and returns that result without calling fn again, and when the first n
\* invocations all raise it makes exactly one more invocation, whose result
\* or exception is the outcome of the call.
C23_BackoffTerminatesWithinBudget ==
    /\ []BackoffSafe
    /\ (b_pc = "loop") ~> BackoffFinished

\* every retry was used up, the delay reached max_delay, and the last
\* invocation's exception reached the caller
C23_Witness ==
    /\ b_pc = "raised"
    /\ b_max_attempts = MaxAttempts
    /\ Invocations = MaxAttempts + 1
    /\ b_delay >= max_delay

\* ---------------------------------------------------------------------
\* fetch_section(page, base, section, paths)
\*
\* What the portal does on a path is the input: visiting it raises (in goto,
\* wait_for_guardian_ready, lazy_scroll_all or collect_items), or
\* collect_items returns its rows, each with section = "".

MaxPaths == 3

Documents == <<"D","o","c","u","m","e","n","t","s">>

PathRaises == [kind |-> "raise", items |-> <<>>]

PathShows(items) == [kind |-> "items", items |-> items]

\* the k-th row collect_items finds on the i-th path
Row(i, k) == Item(<<>>, str(i) \o <<".">> \o str(k), <<>>, <<>>)

\* what the i-th path can do: raise, show nothing, show one row or two
PathOutcomes(i) ==
    { PathRaises, PathShows(<<>>), PathShows(<<Row(i, 1)>>),
      PathShows(<<Row(i, 1), Row(i, 2)>>) }

PathLists ==
    UNION { { ps \in [1..n -> UNION { PathOutcomes(i) : i \in 1..n }] :
                \A i \in 1..n : ps[i] \in PathOutcomes(i) } : n \in 0..MaxPaths }

found_whatever(items) == TRUE

\* if items:
found(items) == items # <<>>

\* for it in items: it.section = section
Labelled(items, section) ==
    [k \in 1..Len(items) |-> [items[k] EXCEPT !.section = section]]

FetchElsewhere == <<clock, monitor_vars, watcher_vars, probe_vars, backoff_vars, export_vars>>

\* the call
FetchCall ==
    /\ f_pc = "idle"
    /\ \E s \in {Messages, Documents}, ps \in PathLists :
          /\ f_section' = s
          /\ f_paths' = ps
    /\ f_next' = 1
    /\ f_pc' = "loop"
    /\ UNCHANGED <<f_visited, f_result, FetchElsewhere>>

\* one pass of the loop body, on the path in place f_next
FetchVisit ==
    /\ f_pc = "loop"
    /\ f_next <= Len(f_paths)
    /\ f_visited' = Append(f_visited, f_next)
    /\ LET out == f_paths[f_next] IN
          IF out.kind = "items" /\ found(out.items)
          THEN /\ f_result' = Labelled(out.items, f_section)
               /\ f_pc' = "returned"
               /\ UNCHANGED f_next
          ELSE \* except Exception: continue, or no rows: the next path
               /\ f_next' = f_next + 1
               /\ UNCHANGED <<f_pc, f_result>>
    /\ UNCHANGED <<f_section, f_paths, FetchElsewhere>>

\* after the loop: return []
FetchExhausted ==
    /\ f_pc = "loop"
    /\ f_next > Len(f_paths)
    /\ f_result' = <<>>
    /\ f_pc' = "returned"
    /\ UNCHANGED <<f_section, f_paths, f_next, f_visited, FetchElsewhere>>

FetchNext ==
    \/ FetchCall
    \/ FetchVisit
    \/ FetchExhausted

FetchSpec == Init /\ [][FetchNext]_vars

\* the places of the paths that show at least one row
Yielding == { i \in 1..Len(f_paths) :
                f_paths[i].kind = "items" /\ f_paths[i].items # <<>> }

FirstYielding == CHOOSE i \in Yielding : \A j \in Yielding : i <= j

\* C29: fetch_section visits the paths in list order; it returns the rows
\* of the first path that shows at least one row, visits no path after it,
\* goes on to the next path when a path raises (the call itself never
\* raises), returns the empty list when no path shows a row, and every row
\* it returns has section = the section asked for.
C29_FirstYieldingPathWins ==
    /\ f_pc \in {"idle", "loop", "returned"}
    /\ \A k \in 1..Len(f_visited) : f_visited[k] = k
    /\ f_pc = "returned" =>
          /\ \A k \in 1..Len(f_result) : f_result[k].section = f_section
          /\ IF Yielding = {}
             THEN /\ f_result = <<>>
                  /\ Len(f_visited) = Len(f_paths)
             ELSE /\ Len(f_visited) = FirstYielding
                  /\ Len(f_result) = Len(f_paths[FirstYielding].items)
                  /\ \A k \in 1..Len(f_result) :
                        f_result[k] =
                            [f_paths[FirstYielding].items[k] EXCEPT !.section = f_section]

\* the first path raised, the second showed nothing, the third showed two
\* rows, which were returned
C29_Witness ==
    /\ f_pc = "returned"
    /\ Len(f_paths) = 3
    /\ f_paths[1].kind = "raise"
    /\ f_paths[2] = PathShows(<<>>)
    /\ Len(f_result) = 2
    /\ f_visited = <<1, 2, 3>>

\* ---------------------------------------------------------------------
\* export_all(zip_after) of arbor_core.py
\*
\* What the crawl finds is the input: the number of items of each section
\* and the number of document files downloaded.  A file of outdir is a
\* pair <<basename, extension>>.

MaxRecords == 1

MaxDownloads == 1

\* the sections crawled by fetch_section, in the order of the dict sections
CrawledSections ==
    <<"Messages", "Communications", "Noticeboard", "Calendar", "Trips",
      "Payments", "Clubs">>

\* the keys of results
ResultSections == {CrawledSections[i] : i \in 1..Len(CrawledSections)} \cup {"Documents"}

\* sec.lower()
lower ==
    [Messages |-> "messages", Communications |-> "communications",
     Noticeboard |-> "noticeboard", Calendar |-> "calendar", Trips |-> "trips",
     Payments |-> "payments", Clubs |-> "clubs", Documents |-> "documents"]

\* the keys of section_files
ZipSections ==
    {"messages", "communications", "noticeboard", "calendar", "trips",
     "payments", "clubs", "documents"}

\* section_files[section]
section_files(section) == {<<section, "json">>, <<section, "csv">>}

\* rows_to_files(rows, outdir, basename): the files it writes, whatever
\* the number of rows
rows_to_files(rows, basename) == {<<basename, "json">>, <<basename, "csv">>}

\* existing_files: the files of the section that exist, and for documents
\* the files of outdir/docs, as a count of names
existing_files(section, files, downloads) ==
    Cardinality(section_files(section) \cap files)
        + (IF section = "documents" /\ downloads >= 0 THEN downloads ELSE 0)

ExportElsewhere == <<clock, monitor_vars, watcher_vars, probe_vars, backoff_vars, fetch_vars>>

\* the crawl: results[name] = fetch_section(...) for each section, then
\* results["Documents"] = download_documents(...), which makes outdir/docs
\* and downloads into it only when the Documents pages showed items
ExportCrawl ==
    /\ x_pc = "idle"
    /\ \E z \in BOOLEAN, r \in [ResultSections -> 0..MaxRecords], d \in 0..MaxDownloads :
          /\ x_zip_after' = z
          /\ x_results' = r
          /\ x_downloads' = IF r["Documents"] = 0 THEN -1 ELSE d
    /\ x_pc' = "crawled"
    /\ UNCHANGED <<x_files, x_zips, ExportElsewhere>>

\* for sec, items in results.items(): rows_to_files(...); then the manifest
ExportSave ==
    /\ x_pc = "crawled"
    /\ x_files' = UNION { rows_to_files(x_results[sec], lower[sec]) : sec \in DOMAIN x_results }
                     \cup {<<"manifest", "json">>}
    /\ x_pc' = "saved"
    /\ UNCHANGED <<x_zip_after, x_results, x_downloads, x_zips, ExportElsewhere>>

\* if zip_after: a ZIP for each section of section_files with existing files
ExportZip ==
    /\ x_pc = "saved"
    /\ x_zip_after
    /\ x_zips' = { section \in ZipSections :
                     existing_files(section, x_files, x_downloads) # 0 }
    /\ x_pc' = "done"
    /\ UNCHANGED <<x_zip_after, x_results, x_downloads, x_files, ExportElsewhere>>

\* else: no ZIP
ExportNoZip ==
    /\ x_pc = "saved"
    /\ ~x_zip_after
    /\ x_pc' = "done"
    /\ UNCHANGED <<x_zip_after, x_results, x_downloads, x_files, x_zips, ExportElsewhere>>

ExportNext ==
    \/ ExportCrawl
    \/ ExportSave
    \/ ExportZip
    \/ ExportNoZip

ExportSpec == Init /\ [][ExportNext]_vars

\* the key of results that is saved under the basename section
SectionNamed(section) == CHOOSE sec \in ResultSections : lower[sec] = section

\* a populated section: at least one scraped record, or for documents at
\* least one downloaded file
Populated(section) ==
    \/ x_results[SectionNamed(section)] >= 1
    \/ section = "documents" /\ x_downloads >= 1

\* C21: when export_all runs with zip_after, <section>.zip is created only
\* for a populated section; a section with zero records gets no ZIP.
C21_ZipOnlyForPopulated ==
    x_pc = "done" => \A section \in x_zips : Populated(section)

====
